---- MODULE Spec2Model ----
(***************************************************************************)
(* Model of src/morse3.cpp: the text <-> Morse transcoder (MorseConverter) *)
(* and the Morse <-> waveform codec (WavProcessor<int8_t>).                *)
(*                                                                         *)
(* A std::string is a sequence of one-character strings.  A                *)
(* std::vector<SampleType> is either a sequence of segments (what          *)
(* addSine/addSilence append, kept run-length encoded) or is fed one       *)
(* sample at a time to the loop body of decodeSamples.                     *)
(***************************************************************************)
EXTENDS Integers, Sequences, FiniteSets, TLC

(***************************************************************************)
(* Bounds of the explored inputs.                                          *)
(***************************************************************************)
MaxTextLen == 4

MaxJunkLen == 5

MaxMorseLen == 4

MaxPipeLen == 3

MaxRuns == 4

(***************************************************************************)
(* Characters.                                                             *)
(***************************************************************************)
UpperLetters == <<"A","B","C","D","E","F","G","H","I","J","K","L","M",
                  "N","O","P","Q","R","S","T","U","V","W","X","Y","Z">>

LowerLetters == <<"a","b","c","d","e","f","g","h","i","j","k","l","m",
                  "n","o","p","q","r","s","t","u","v","w","x","y","z">>

Range(s) == {s[k] : k \in DOMAIN s}

SeqsUpTo(S, n) == UNION {[1..k -> S] : k \in 0..n}

\* std::toupper in the "C" locale, on ASCII characters
toupper(c) ==
    IF \E k \in 1..26 : LowerLetters[k] = c
    THEN UpperLetters[CHOOSE k \in 1..26 : LowerLetters[k] = c]
    ELSE c

\* std::isspace in the "C" locale (what operator>> skips and stops at)
isspace(c) == c \in {" ", "\t", "\n", "\r", "\f"}

(***************************************************************************)
(* MorseConverter::initMaps                                                *)
(***************************************************************************)
mappings ==
    << <<"A", <<".","-">> >>,          <<"B", <<"-",".",".",".">> >>,
       <<"C", <<"-",".","-",".">> >>,  <<"D", <<"-",".",".">> >>,
       <<"E", <<".">> >>,              <<"F", <<".",".","-",".">> >>,
       <<"G", <<"-","-",".">> >>,      <<"H", <<".",".",".",".">> >>,
       <<"I", <<".",".">> >>,          <<"J", <<".","-","-","-">> >>,
       <<"K", <<"-",".","-">> >>,      <<"L", <<".","-",".",".">> >>,
       <<"M", <<"-","-">> >>,          <<"N", <<"-",".">> >>,
       <<"O", <<"-","-","-">> >>,      <<"P", <<".","-","-",".">> >>,
       <<"Q", <<"-","-",".","-">> >>,  <<"R", <<".","-",".">> >>,
       <<"S", <<".",".",".">> >>,      <<"T", <<"-">> >>,
       <<"U", <<".",".","-">> >>,      <<"V", <<".",".",".","-">> >>,
       <<"W", <<".","-","-">> >>,      <<"X", <<"-",".",".","-">> >>,
       <<"Y", <<"-",".","-","-">> >>,  <<"Z", <<"-","-",".",".">> >>,
       <<"0", <<"-","-","-","-","-">> >>, <<"1", <<".","-","-","-","-">> >>,
       <<"2", <<".",".","-","-","-">> >>, <<"3", <<".",".",".","-","-">> >>,
       <<"4", <<".",".",".",".","-">> >>, <<"5", <<".",".",".",".",".">> >>,
       <<"6", <<"-",".",".",".",".">> >>, <<"7", <<"-","-",".",".",".">> >>,
       <<"8", <<"-","-","-",".",".">> >>, <<"9", <<"-","-","-","-",".">> >>,
       <<".", <<".","-",".","-",".","-">> >>,
       <<",", <<"-","-",".",".","-","-">> >>,
       <<"?", <<".",".","-","-",".",".">> >>,
       <<" ", <<" "," "," ">> >> >>

\* charToMorse[c] = s for every pair, a later pair overriding an earlier one
charToMorse ==
    [c \in {mappings[k][1] : k \in DOMAIN mappings} |->
        mappings[CHOOSE k \in DOMAIN mappings :
                    /\ mappings[k][1] = c
                    /\ \A j \in DOMAIN mappings :
                          mappings[j][1] = c => j <= k][2]]

\* morseToChar[s] = c for every pair, a later pair overriding an earlier one
morseToCharCount(token) == \E k \in DOMAIN mappings : mappings[k][2] = token

morseToCharAt(token) ==
    mappings[CHOOSE k \in DOMAIN mappings :
                /\ mappings[k][2] = token
                /\ \A j \in DOMAIN mappings :
                      mappings[j][2] = token => j <= k][1]

(***************************************************************************)
(* MorseConverter::encode.  The result is <<"return", morse>> or           *)
(* <<"throw", c>>, c the character named by the MorseException.            *)
(***************************************************************************)
RECURSIVE encodeLoop(_, _, _, _)

\* encodeLoop, an unsupported character skipped instead of thrown
encodeLoop_skipUnsupported(text, k, morse, prev_was_space) ==
    IF k > Len(text) THEN <<"return", morse>>
    ELSE LET c == toupper(text[k]) IN
         IF c = " "
         THEN encodeLoop(text, k + 1, morse \o <<" ", " ", " ">>, TRUE)
         ELSE LET m1 == IF morse # <<>> /\ ~prev_was_space
                        THEN Append(morse, " ") ELSE morse
              IN IF c \in DOMAIN charToMorse
                 THEN encodeLoop(text, k + 1, m1 \o charToMorse[c], FALSE)
                 ELSE encodeLoop(text, k + 1, m1, FALSE)

\* encodeLoop, the letter gap emitted after a word gap too
encodeLoop_gapAfterSpace(text, k, morse, prev_was_space) ==
    IF k > Len(text) THEN <<"return", morse>>
    ELSE LET c == toupper(text[k]) IN
         IF c = " "
         THEN encodeLoop(text, k + 1, morse \o <<" ", " ", " ">>, TRUE)
         ELSE LET m1 == IF morse # <<>> THEN Append(morse, " ") ELSE morse
              IN IF c \in DOMAIN charToMorse
                 THEN encodeLoop(text, k + 1, m1 \o charToMorse[c], FALSE)
                 ELSE <<"throw", c>>

encodeLoop(text, k, morse, prev_was_space) ==
    IF k > Len(text) THEN <<"return", morse>>
    ELSE LET c == toupper(text[k]) IN
         IF c = " "
         THEN encodeLoop(text, k + 1, morse \o <<" ", " ", " ">>, TRUE)
         ELSE LET m1 == IF morse # <<>> /\ ~prev_was_space
                        THEN Append(morse, " ") ELSE morse
              IN IF c \in DOMAIN charToMorse
                 THEN encodeLoop(text, k + 1, m1 \o charToMorse[c], FALSE)
                 ELSE <<"throw", c>>

encode(text) == encodeLoop(text, 1, <<>>, FALSE)

(***************************************************************************)
(* MorseConverter::decode.  Positions are 1-based; npos is 0.              *)
(***************************************************************************)
npos == 0

\* std::string::find("   ", prev), prev 1-based
find3(morse, prev) ==
    LET hits == {p \in prev..(Len(morse) - 2) :
                    morse[p] = " " /\ morse[p + 1] = " " /\ morse[p + 2] = " "}
    IN IF hits = {} THEN npos
       ELSE CHOOSE p \in hits : \A q \in hits : p <= q

RECURSIVE splitWords(_, _)
splitWords(morse, prev) ==
    LET pos == find3(morse, prev) IN
    IF pos # npos
    THEN <<SubSeq(morse, prev, pos - 1)>> \o splitWords(morse, pos + 3)
    ELSE <<SubSeq(morse, prev, Len(morse))>>

\* the tokens that repeated `iss >> token` extracts from one word
RECURSIVE tokensOf(_, _, _)
tokensOf(word, k, token) ==
    IF k > Len(word)
    THEN IF token = <<>> THEN <<>> ELSE <<token>>
    ELSE IF isspace(word[k])
         THEN IF token = <<>> THEN tokensOf(word, k + 1, <<>>)
              ELSE <<token>> \o tokensOf(word, k + 1, <<>>)
         ELSE tokensOf(word, k + 1, Append(token, word[k]))

RECURSIVE decodeTokens(_)

\* decodeTokens, an unknown token rendered as '?' instead of dropped
decodeTokens_unknownKept(toks) ==
    IF toks = <<>> THEN <<>>
    ELSE (IF morseToCharCount(Head(toks))
          THEN <<morseToCharAt(Head(toks))>> ELSE <<"?">>)
         \o decodeTokens(Tail(toks))

decodeTokens(toks) ==
    IF toks = <<>> THEN <<>>
    ELSE (IF morseToCharCount(Head(toks))
          THEN <<morseToCharAt(Head(toks))>> ELSE <<>>)
         \o decodeTokens(Tail(toks))

RECURSIVE decodeWords(_, _)

\* decodeWords, a space pushed after the last word too
decodeWords_trailingSpace(words, i) ==
    IF i > Len(words) THEN <<>>
    ELSE decodeTokens(tokensOf(words[i], 1, <<>>))
         \o <<" ">>
         \o decodeWords(words, i + 1)

decodeWords(words, i) ==
    IF i > Len(words) THEN <<>>
    ELSE decodeTokens(tokensOf(words[i], 1, <<>>))
         \o (IF i # Len(words) THEN <<" ">> ELSE <<>>)
         \o decodeWords(words, i + 1)

decode(morse) == decodeWords(splitWords(morse, 1), 1)

(***************************************************************************)
(* WavProcessor<int8_t>: constants.  Durations are in milliseconds.        *)
(***************************************************************************)
MAX_AMP == 127

DOT_DURATION == 100

DASH_DURATION == 300

SYMBOL_SPACE == 100

WORD_SPACE == 700

\* `const int sr = 44100` of generateSamples, WavHeader::sampleRate
SampleRate == 44100

Abs(x) == IF x < 0 THEN 0 - x ELSE x

(***************************************************************************)
(* static_cast<int>(duration * sr) at sr = 44100, in IEEE double           *)
(* arithmetic: 0.1*44100 = 4410.0, 0.3*44100 = 13230.0,                    *)
(* (0.1*3)*44100 = 13230.000000000002 and 0.7*44100 = 30869.999999999996,  *)
(* which truncates to 30869.                                               *)
(***************************************************************************)
sampleCount(duration) ==
    IF duration = WORD_SPACE
    THEN (duration * SampleRate) \div 1000 - 1
    ELSE (duration * SampleRate) \div 1000

(***************************************************************************)
(* static_cast<SampleType>(MAX_AMP * std::sin(step * i)) for i = 0..440;   *)
(* 800 Hz at 44100 samples/s repeats every 441 samples.                    *)
(***************************************************************************)
sineTable ==
    <<0, 14, 28, 42, 55, 68, 80, 90, 100, 108, 115, 120, 124, 126,
       126, 125, 122, 118, 112, 105, 96, 86, 75, 63, 50, 36, 22, 8,
       -6, -20, -34, -48, -61, -73, -85, -95, -104, -111, -117, -122, -125, -126,
       -126, -124, -121, -116, -109, -101, -92, -81, -70, -57, -44, -30, -16, -1,
       12, 26, 40, 54, 66, 78, 89, 99, 107, 114, 120, 124, 126, 126,
       126, 123, 119, 113, 106, 97, 87, 76, 64, 51, 38, 24, 9, -4,
       -18, -33, -46, -59, -72, -83, -94, -103, -110, -117, -122, -125, -126, -126,
       -125, -121, -116, -110, -102, -93, -83, -71, -59, -45, -32, -18, -3, 10,
       25, 39, 52, 65, 77, 88, 98, 106, 113, 119, 123, 126, 126, 126,
       123, 119, 114, 107, 98, 88, 78, 66, 53, 40, 26, 11, -2, -17,
       -31, -45, -58, -70, -82, -92, -102, -109, -116, -121, -124, -126, -126, -125,
       -122, -117, -111, -103, -94, -84, -73, -60, -47, -33, -19, -5, 9, 23,
       37, 50, 63, 75, 87, 96, 105, 113, 118, 123, 125, 126, 126, 124,
       120, 115, 108, 99, 90, 79, 67, 55, 41, 27, 13, 0, -15, -29,
       -43, -56, -69, -80, -91, -100, -109, -115, -120, -124, -126, -126, -125, -122,
       -118, -112, -104, -95, -85, -74, -62, -49, -35, -21, -7, 7, 21, 35,
       49, 62, 74, 85, 95, 104, 112, 118, 122, 125, 126, 126, 124, 120,
       115, 109, 100, 91, 80, 69, 56, 43, 29, 15, 0, -13, -27, -41,
       -55, -67, -79, -90, -99, -108, -115, -120, -124, -126, -126, -125, -123, -118,
       -113, -105, -96, -87, -75, -63, -50, -37, -23, -9, 5, 19, 33, 47,
       60, 73, 84, 94, 103, 111, 117, 122, 125, 126, 126, 124, 121, 116,
       109, 102, 92, 82, 70, 58, 45, 31, 17, 2, -11, -26, -40, -53,
       -66, -78, -88, -98, -107, -114, -119, -123, -126, -126, -126, -123, -119, -113,
       -106, -98, -88, -77, -65, -52, -39, -25, -10, 3, 18, 32, 45, 59,
       71, 83, 93, 102, 110, 116, 121, 125, 126, 126, 125, 122, 117, 110,
       103, 94, 83, 72, 59, 46, 33, 18, 4, -9, -24, -38, -51, -64,
       -76, -87, -97, -106, -113, -119, -123, -126, -126, -126, -124, -120, -114, -107,
       -99, -89, -78, -66, -54, -40, -26, -12, 1, 16, 30, 44, 57, 70,
       81, 92, 101, 109, 116, 121, 124, 126, 126, 125, 122, 117, 111, 104,
       95, 85, 73, 61, 48, 34, 20, 6, -8, -22, -36, -50, -63, -75,
       -86, -96, -105, -112, -118, -122, -125, -126, -126, -124, -120, -115, -108, -100,
       -90, -80, -68, -55, -42, -28, -14 >>

SinePeriod == 441

\* a vector<SampleType> as the segments addSine and addSilence appended
addSine(samples, duration) == Append(samples, <<"sine", sampleCount(duration)>>)

addSilence(samples, duration) == Append(samples, <<"zero", sampleCount(duration)>>)

\* sample j (0-based) of a segment
segSample(seg, j) == IF seg[1] = "sine" THEN sineTable[(j % SinePeriod) + 1] ELSE 0

\* samples.size(): the segment lengths lo..hi summed (halving keeps it shallow)
RECURSIVE sizeRange(_, _, _)
sizeRange(samples, lo, hi) ==
    IF lo > hi THEN 0
    ELSE IF lo = hi THEN samples[lo][2]
    ELSE sizeRange(samples, lo, (lo + hi) \div 2)
         + sizeRange(samples, (lo + hi) \div 2 + 1, hi)

sizeOf(samples) == sizeRange(samples, 1, Len(samples))

(***************************************************************************)
(* WavProcessor::generateSamples                                           *)
(***************************************************************************)
RECURSIVE countSpaces(_, _)
countSpaces(morse, i) ==
    IF i <= Len(morse) /\ morse[i] = " " THEN 1 + countSpaces(morse, i + 1) ELSE 0

\* one iteration of `while (i < morse.size())`, i 1-based: the new <<i, samples>>
generateIter(morse, i, samples) ==
    LET c == morse[i] IN
    IF c = "." \/ c = "-"
    THEN <<i + 1,
           addSilence(addSine(samples,
                              IF c = "." THEN DOT_DURATION ELSE DASH_DURATION),
                      SYMBOL_SPACE)>>
    ELSE IF c = " "
    THEN LET spaceCount == countSpaces(morse, i) IN
         <<i + spaceCount,
           IF spaceCount = 1 THEN addSilence(samples, SYMBOL_SPACE * 3)
           ELSE IF spaceCount >= 3 THEN addSilence(samples, WORD_SPACE)
           ELSE samples>>
    ELSE <<i + 1, samples>>

(***************************************************************************)
(* WavProcessor::decodeSamples.  The locals of the function are a record;  *)
(* loopBody is one iteration of `for (i ...)` on samples[i] (i 0-based).    *)
(* n / double(sr) >= 0.79 is 100*n >= 79*sr, n / double(sr) >= 0.39 is     *)
(* 100*n >= 39*sr, n / double(sr) < (0.1 + 0.3) / 2 is                     *)
(* 2*1000*n < (DOT_DURATION + DASH_DURATION)*sr, and                       *)
(* static_cast<int>(sr * 0.001) is sr \div 1000: the quotients differ from *)
(* the decimal bounds by far more than a double's rounding error.          *)
(***************************************************************************)
threshold == MAX_AMP \div 100

debounce_threshold(sr) == sr \div 1000

decodeLocals ==
    [morse |-> <<>>, in_tone |-> FALSE, tone_start |-> 0,
     silence_start |-> -1, debounce_counter |-> 0]

\* gapFor, the letter gap recognised from 0.41 s instead of 0.39 s
gapFor_lateLetterGap(n, sr) ==
    IF 100 * n >= 79 * sr THEN <<" ", " ", " ">>
    ELSE IF 100 * n >= 41 * sr THEN <<" ">>
    ELSE <<>>

gapFor(n, sr) ==
    IF 100 * n >= 79 * sr THEN <<" ", " ", " ">>
    ELSE IF 100 * n >= 39 * sr THEN <<" ">>
    ELSE <<>>

\* symbolFor, the tone compared with the dash duration instead of the midpoint
symbolFor_dashDuration(n, sr) ==
    IF 1000 * n < DASH_DURATION * sr THEN "." ELSE "-"

\* symbolFor, a tone of exactly the midpoint classified as a dot
symbolFor_midpointIsDot(n, sr) ==
    IF 2 * 1000 * n <= (DOT_DURATION + DASH_DURATION) * sr THEN "." ELSE "-"

symbolFor(n, sr) ==
    IF 2 * 1000 * n < (DOT_DURATION + DASH_DURATION) * sr THEN "." ELSE "-"

\* loopBody, the debounce counter not reset when the classification reverts
loopBody_noReset(st, sample, i, sr) ==
    IF Abs(sample) > threshold
    THEN IF ~st.in_tone
         THEN IF st.debounce_counter + 1 >= debounce_threshold(sr)
              THEN [morse |-> IF st.silence_start # -1
                              THEN st.morse \o gapFor(i - st.silence_start, sr)
                              ELSE st.morse,
                    in_tone |-> TRUE,
                    tone_start |-> i,
                    silence_start |-> -1,
                    debounce_counter |-> 0]
              ELSE [st EXCEPT !.debounce_counter = @ + 1]
         ELSE st
    ELSE IF st.in_tone
         THEN IF st.debounce_counter + 1 >= debounce_threshold(sr)
              THEN [morse |-> Append(st.morse, symbolFor(i - st.tone_start, sr)),
                    in_tone |-> FALSE,
                    tone_start |-> st.tone_start,
                    silence_start |-> i,
                    debounce_counter |-> 0]
              ELSE [st EXCEPT !.debounce_counter = @ + 1]
         ELSE st

\* loopBody, the silence classified even when none is pending
loopBody_gapWithoutTone(st, sample, i, sr) ==
    IF Abs(sample) > threshold
    THEN IF ~st.in_tone
         THEN IF st.debounce_counter + 1 >= debounce_threshold(sr)
              THEN [morse |-> st.morse \o gapFor(i - st.silence_start, sr),
                    in_tone |-> TRUE,
                    tone_start |-> i,
                    silence_start |-> -1,
                    debounce_counter |-> 0]
              ELSE [st EXCEPT !.debounce_counter = @ + 1]
         ELSE [st EXCEPT !.debounce_counter = 0]
    ELSE IF st.in_tone
         THEN IF st.debounce_counter + 1 >= debounce_threshold(sr)
              THEN [morse |-> Append(st.morse, symbolFor(i - st.tone_start, sr)),
                    in_tone |-> FALSE,
                    tone_start |-> st.tone_start,
                    silence_start |-> i,
                    debounce_counter |-> 0]
              ELSE [st EXCEPT !.debounce_counter = @ + 1]
         ELSE [st EXCEPT !.debounce_counter = 0]

loopBody(st, sample, i, sr) ==
    IF Abs(sample) > threshold
    THEN IF ~st.in_tone
         THEN IF st.debounce_counter + 1 >= debounce_threshold(sr)
              THEN [morse |-> IF st.silence_start # -1
                              THEN st.morse \o gapFor(i - st.silence_start, sr)
                              ELSE st.morse,
                    in_tone |-> TRUE,
                    tone_start |-> i,
                    silence_start |-> -1,
                    debounce_counter |-> 0]
              ELSE [st EXCEPT !.debounce_counter = @ + 1]
         ELSE [st EXCEPT !.debounce_counter = 0]
    ELSE IF st.in_tone
         THEN IF st.debounce_counter + 1 >= debounce_threshold(sr)
              THEN [morse |-> Append(st.morse, symbolFor(i - st.tone_start, sr)),
                    in_tone |-> FALSE,
                    tone_start |-> st.tone_start,
                    silence_start |-> i,
                    debounce_counter |-> 0]
              ELSE [st EXCEPT !.debounce_counter = @ + 1]
         ELSE [st EXCEPT !.debounce_counter = 0]

\* The iterations for samples lo..hi (0-based within the segment that starts
\* at index base), in order.  The range is halved only to keep the evaluation
\* shallow, and the test on `left` makes the first half be evaluated before
\* the second is entered; it is always true.
RECURSIVE loopOver(_, _, _, _, _, _)
loopOver(st, seg, base, lo, hi, sr) ==
    IF lo > hi THEN st
    ELSE IF lo = hi THEN loopBody(st, segSample(seg, lo), base + lo, sr)
    ELSE LET mid == (lo + hi) \div 2
             left == loopOver(st, seg, base, lo, mid, sr)
         IN IF left.debounce_counter >= 0
            THEN loopOver(left, seg, base, mid + 1, hi, sr)
            ELSE left

\* decodeReturn, a tone still pending at the end of the stream flushed as a dot
decodeReturn_flushPending(st) ==
    IF st.in_tone THEN Append(st.morse, ".") ELSE st.morse

\* `return morse` at the end of decodeSamples
decodeReturn(st) == st.morse

(***************************************************************************)
(* WavProcessor::saveWav / loadWav.  The file is the header fields that    *)
(* loadWav reads back, followed by the payload.                            *)
(***************************************************************************)
sizeofSampleType == 1

noFile == [bitsPerSample |-> 0, sampleRate |-> 0, dataSize |-> 0, data |-> <<>>]

saveWav(samples) ==
    [bitsPerSample |-> sizeofSampleType * 8,
     sampleRate |-> SampleRate,
     dataSize |-> sizeOf(samples) * sizeofSampleType,
     data |-> samples]

\* the first n samples of the payload
RECURSIVE readSamples(_, _)
readSamples(data, n) ==
    IF n = sizeOf(data) THEN data
    ELSE IF data = <<>> \/ n <= 0 THEN <<>>
    ELSE IF Head(data)[2] >= n THEN << <<Head(data)[1], n>> >>
    ELSE <<Head(data)>> \o readSamples(Tail(data), n - Head(data)[2])

\* <<"return", samples, sr>> handed to decodeSamples, or <<"throw">>
loadWav(file) ==
    IF file.bitsPerSample # sizeofSampleType * 8
    THEN <<"throw">>
    ELSE <<"return", readSamples(file.data, file.dataSize \div sizeofSampleType),
           file.sampleRate>>

(***************************************************************************)
(* State.                                                                  *)
(*   pc        position in main / encodeFile / decodeFile / decodeSamples  *)
(*   text      the input text (test_message, or the input file's content)  *)
(*   morse     the Morse string returned by encode                         *)
(*   error     the character named by a thrown MorseException              *)
(*   gi, samples   i and samples of generateSamples                        *)
(*   wav       the WAV file                                                *)
(*   det, i, sr    the locals, loop index and rate of decodeSamples        *)
(*   seg       the segment of the sample vector that holds sample i        *)
(*   detected  the Morse string returned by decodeSamples                  *)
(*   decoded   the text returned by decode                                 *)
(*   verdict   what the self-test prints                                   *)
(*   feed      the sample stream handed to decodeSamples one run at a time *)
(*   hist      history of the detector's run: what the properties refer to *)
(***************************************************************************)
VARIABLES pc, text, morse, error, gi, samples, wav, det, i, sr, seg,
          detected, decoded, verdict, feed, hist

vars == <<pc, text, morse, error, gi, samples, wav, det, i, sr, seg,
          detected, decoded, verdict, feed, hist>>

unset == <<"<unset>">>

noFeed == [class |-> "none", left |-> 0, runs |-> 0]

noHist == [runLen |-> 0, runInTone |-> FALSE, runMorse |-> <<>>,
           prevLen |-> 0, prevClass |-> "none", prevInTone |-> FALSE,
           prevMorse |-> <<>>, committed |-> <<>>, tonesStarted |-> 0,
           tonesEnded |-> 0]

InitRest ==
    /\ error = unset
    /\ gi = 1
    /\ samples = <<>>
    /\ wav = noFile
    /\ det = decodeLocals
    /\ i = 0
    /\ sr = 0
    /\ seg = 1
    /\ detected = unset
    /\ decoded = unset
    /\ verdict = "none"
    /\ feed = noFeed
    /\ hist = noHist

(***************************************************************************)
(* Text codec on its own: text -> encode -> decode.                        *)
(***************************************************************************)
TextChars == {"E", "t", " ", "!"}

AllChars == Range(UpperLetters) \cup Range(LowerLetters)
            \cup {"0","1","2","3","4","5","6","7","8","9",".",",","?"," "}
            \cup {"!", "-", "\t"}

TextInputs ==
    SeqsUpTo(TextChars, MaxTextLen) \cup [1..2 -> AllChars] \cup [1..1 -> AllChars]

InitText ==
    /\ pc = "start"
    /\ text \in TextInputs
    /\ morse = unset
    /\ InitRest

\* morse = encode(text), or the exception leaves the caller
Encode ==
    /\ pc = "start"
    /\ LET r == encode(text) IN
       IF r[1] = "return"
       THEN /\ morse' = r[2]
            /\ error' = error
            /\ pc' = "encoded"
       ELSE /\ morse' = morse
            /\ error' = <<r[2]>>
            /\ pc' = "failed"
    /\ UNCHANGED <<text, gi, samples, wav, det, i, sr, seg, detected, decoded,
                   verdict, feed, hist>>

\* decoded = decode(morse)
DecodeMorse ==
    /\ pc = "encoded"
    /\ decoded' = decode(morse)
    /\ pc' = "decoded"
    /\ UNCHANGED <<text, morse, error, gi, samples, wav, det, i, sr, seg,
                   detected, verdict, feed, hist>>

NextText == Encode \/ DecodeMorse

SpecText == InitText /\ [][NextText]_vars

(***************************************************************************)
(* decode on arbitrary strings.                                            *)
(***************************************************************************)
JunkChars == {".", "-", " ", "x", "\t"}

JunkExtras ==
    { <<".", "-", " ", "x", "y", "z", " ", "-", ".", ".", ".">>,
      <<".", " ", "x", " ", " ", " ", "-", "-", " ", " ", " ", " ", ".">> }

InitJunk ==
    /\ pc = "encoded"
    /\ text = unset
    /\ morse \in SeqsUpTo(JunkChars, MaxJunkLen) \cup JunkExtras
    /\ InitRest

NextJunk == DecodeMorse

SpecJunk == InitJunk /\ [][NextJunk]_vars

(***************************************************************************)
(* The sample loops, shared by the specifications below.                   *)
(***************************************************************************)
\* one iteration of the while loop of generateSamples
GenerateStep ==
    /\ pc = "generate"
    /\ gi <= Len(morse)
    /\ gi' = generateIter(morse, gi, samples)[1]
    /\ samples' = generateIter(morse, gi, samples)[2]
    /\ UNCHANGED <<pc, text, morse, error, wav, det, i, sr, seg, detected,
                   decoded, verdict, feed, hist>>

\* the iterations of the for loop of decodeSamples over the next segment
DetectSegment ==
    /\ pc = "detect"
    /\ seg <= Len(samples)
    /\ det' = loopOver(det, samples[seg], i, 0, samples[seg][2] - 1, sr)
    /\ i' = i + samples[seg][2]
    /\ seg' = seg + 1
    /\ UNCHANGED <<pc, text, morse, error, gi, samples, wav, sr, detected,
                   decoded, verdict, feed, hist>>

\* the end of the for loop: decodeSamples returns
DetectReturn ==
    /\ pc = "detect"
    /\ seg > Len(samples)
    /\ feed.left = 0
    /\ detected' = decodeReturn(det)
    /\ pc' = "detected"
    /\ UNCHANGED <<text, morse, error, gi, samples, wav, det, i, sr, seg,
                   decoded, verdict, feed, hist>>

(***************************************************************************)
(* Waveform codec on its own: decodeSamples(generateSamples(m), 44100).    *)
(***************************************************************************)
MorseChars == {".", "-", " "}

MorseExtras ==
    { <<".", " ", " ", " ", "-">>, <<"-", " ", " ", " ", ".", " ", "-">>,
      <<".", ".", ".", ".", ".", ".", ".">>, <<" ", ".", "-", " ", " ", " ">>,
      <<"-", ".", " ", " ", ".">> }

InitWave ==
    /\ pc = "generate"
    /\ text = unset
    /\ morse \in SeqsUpTo(MorseChars, MaxMorseLen) \cup MorseExtras
    /\ InitRest

\* generateSamples has returned; decodeSamples(samples, 44100) starts
CallDecodeSamples ==
    /\ pc = "generate"
    /\ gi > Len(morse)
    /\ pc' = "detect"
    /\ sr' = SampleRate
    /\ det' = decodeLocals
    /\ i' = 0
    /\ seg' = 1
    /\ UNCHANGED <<text, morse, error, gi, samples, wav, detected, decoded,
                   verdict, feed, hist>>

NextWave == GenerateStep \/ CallDecodeSamples \/ DetectSegment \/ DetectReturn

SpecWave == InitWave /\ [][NextWave]_vars

(***************************************************************************)
(* The self-test of main on an arbitrary message: encode, encodeFile       *)
(* (encode, generateSamples, saveWav), decodeFile (loadWav with            *)
(* decodeSamples, decode), comparison.                                     *)
(***************************************************************************)
test_message ==
    <<"I", " ", "H", "A", "V", "E", " ", "2", " ", "C", "U", "P", "S", " ",
      "O", "F", " ", "W", "A", "T", "E", "R", ".">>

PipeChars == {"e", "T", " "}

InitPipe ==
    /\ pc = "start"
    /\ text \in SeqsUpTo(PipeChars, MaxPipeLen) \cup {test_message}
                \cup [1..1 -> DOMAIN charToMorse]
    /\ morse = unset
    /\ InitRest

\* encodeFile: the text is read back and encoded, generateSamples starts
EncodeFileStart ==
    /\ pc = "encoded"
    /\ morse' = encode(text)[2]
    /\ gi' = 1
    /\ samples' = <<>>
    /\ pc' = "generate"
    /\ UNCHANGED <<text, error, wav, det, i, sr, seg, detected, decoded,
                   verdict, feed, hist>>

\* encodeFile: generateSamples has returned, saveWav writes the file
SaveWav ==
    /\ pc = "generate"
    /\ gi > Len(morse)
    /\ wav' = saveWav(samples)
    /\ pc' = "saved"
    /\ UNCHANGED <<text, morse, error, gi, samples, det, i, sr, seg, detected,
                   decoded, verdict, feed, hist>>

\* decodeFile: loadWav reads the file and calls decodeSamples
LoadWav ==
    /\ pc = "saved"
    /\ LET r == loadWav(wav) IN
       IF r[1] = "return"
       THEN /\ samples' = r[2]
            /\ sr' = r[3]
            /\ det' = decodeLocals
            /\ i' = 0
            /\ seg' = 1
            /\ pc' = "detect"
       ELSE /\ pc' = "failed"
            /\ UNCHANGED <<samples, sr, det, i, seg>>
    /\ UNCHANGED <<text, morse, error, gi, wav, detected, decoded, verdict,
                   feed, hist>>

\* decodeFile: text = decode(morse), written to the output file
DecodeFile ==
    /\ pc = "detected"
    /\ decoded' = decode(detected)
    /\ pc' = "written"
    /\ UNCHANGED <<text, morse, error, gi, samples, wav, det, i, sr, seg,
                   detected, verdict, feed, hist>>

\* main: the output file is read back and compared with the message
Compare ==
    /\ pc = "written"
    /\ verdict' = IF text = decoded THEN "SUCCESS" ELSE "FAILURE"
    /\ pc' = "done"
    /\ UNCHANGED <<text, morse, error, gi, samples, wav, det, i, sr, seg,
                   detected, decoded, feed, hist>>

NextPipe ==
    \/ Encode \/ EncodeFileStart \/ GenerateStep \/ SaveWav \/ LoadWav
    \/ DetectSegment \/ DetectReturn \/ DecodeFile \/ Compare

SpecPipe == InitPipe /\ [][NextPipe]_vars

(***************************************************************************)
(* decodeSamples one sample at a time, on a stream of alternating active   *)
(* and quiet runs whose lengths sit on the detector's decision boundaries. *)
(***************************************************************************)
DetectRates == {2000, 3000}

ActiveValues == {2, -128}

QuietValues == {0, -1}

ActiveRunLens(rate) ==
    {debounce_threshold(rate) - 1, debounce_threshold(rate),
     rate \div 5 - 1, rate \div 5} \ {0}

QuietRunLens(rate) ==
    {debounce_threshold(rate) - 1, debounce_threshold(rate),
     (39 * rate) \div 100, (79 * rate) \div 100} \ {0}

InitDetect ==
    /\ pc = "detect"
    /\ text = unset
    /\ morse = unset
    /\ error = unset
    /\ gi = 1
    /\ samples = <<>>
    /\ wav = noFile
    /\ det = decodeLocals
    /\ i = 0
    /\ sr \in DetectRates
    /\ seg = 1
    /\ detected = unset
    /\ decoded = unset
    /\ verdict = "none"
    /\ feed = noFeed
    /\ hist = noHist

\* the stream goes on with a run of the other classification
NextRun ==
    /\ pc = "detect"
    /\ feed.left = 0
    /\ feed.runs < MaxRuns
    /\ \E class \in {"active", "quiet"} \ {feed.class} :
         \E n \in (IF class = "active" THEN ActiveRunLens(sr) ELSE QuietRunLens(sr)) :
            feed' = [class |-> class, left |-> n, runs |-> feed.runs + 1]
    /\ hist' = [hist EXCEPT !.runLen = 0,
                            !.runInTone = det.in_tone,
                            !.runMorse = det.morse,
                            !.prevLen = hist.runLen,
                            !.prevClass = feed.class,
                            !.prevInTone = hist.runInTone,
                            !.prevMorse = hist.runMorse]
    /\ UNCHANGED <<pc, text, morse, error, gi, samples, wav, det, i, sr, seg,
                   detected, decoded, verdict>>

\* one iteration of the for loop of decodeSamples
DetectSample ==
    /\ pc = "detect"
    /\ feed.left > 0
    /\ \E sample \in (IF feed.class = "active" THEN ActiveValues ELSE QuietValues) :
          det' = loopBody(det, sample, i, sr)
    /\ i' = i + 1
    /\ feed' = [feed EXCEPT !.left = @ - 1]
    /\ hist' = [hist EXCEPT
                  !.runLen = @ + 1,
                  !.committed = IF det'.in_tone # det.in_tone
                                THEN det'.morse ELSE @,
                  !.tonesStarted = IF ~det.in_tone /\ det'.in_tone
                                   THEN @ + 1 ELSE @,
                  !.tonesEnded = IF det.in_tone /\ ~det'.in_tone
                                 THEN @ + 1 ELSE @]
    /\ UNCHANGED <<pc, text, morse, error, gi, samples, wav, sr, seg, detected,
                   decoded, verdict>>

NextDetect == NextRun \/ DetectSample \/ DetectReturn

SpecDetect == InitDetect /\ [][NextDetect]_vars

(***************************************************************************)
(* Vocabulary of the properties.                                           *)
(***************************************************************************)
Alphabet ==
    Range(UpperLetters)
    \cup {"0","1","2","3","4","5","6","7","8","9",".",",","?"," "}

Uppercase(s) ==
    [k \in 1..Len(s) |->
        IF \E j \in 1..26 : LowerLetters[j] = s[k]
        THEN UpperLetters[CHOOSE j \in 1..26 : LowerLetters[j] = s[k]]
        ELSE s[k]]

InAlphabet(s) == \A k \in 1..Len(s) : Uppercase(s)[k] \in Alphabet

\* the maximal runs of spaces of s, as <<first, last>>
SpaceRuns(s) ==
    {<<a, CHOOSE b \in a..Len(s) :
              /\ \A k \in a..b : s[k] = " "
              /\ (b = Len(s) \/ s[b + 1] # " ")>> :
        a \in {a \in 1..Len(s) : s[a] = " " /\ (a = 1 \/ s[a - 1] # " ")}}

RunLengths(s) == {r[2] - r[1] + 1 : r \in SpaceRuns(s)}

\* the lengths of the maximal space runs of s from position k on, in order
RECURSIVE RunLengthSeq(_, _)
RunLengthSeq(s, k) ==
    IF k > Len(s) THEN <<>>
    ELSE IF \E r \in SpaceRuns(s) : r[1] = k
    THEN LET r == CHOOSE r \in SpaceRuns(s) : r[1] = k
         IN <<r[2] - r[1] + 1>> \o RunLengthSeq(s, r[2] + 1)
    ELSE RunLengthSeq(s, k + 1)

RECURSIVE DropOnes(_)
DropOnes(ns) ==
    IF ns = <<>> THEN <<>>
    ELSE (IF Head(ns) = 1 THEN <<>> ELSE <<Head(ns)>>) \o DropOnes(Tail(ns))

\* s with every internal run of spaces (one with a non-space on both sides)
\* collapsed to a single space
RECURSIVE CollapseFrom(_, _)
CollapseFrom(s, k) ==
    IF k > Len(s) THEN <<>>
    ELSE (IF /\ s[k] = " "
             /\ k > 1 /\ s[k - 1] = " "
             /\ \E a \in 1..(k - 1) : s[a] # " "
             /\ \E b \in (k + 1)..Len(s) : s[b] # " "
          THEN <<>> ELSE <<s[k]>>)
         \o CollapseFrom(s, k + 1)

CollapseInternal(s) == CollapseFrom(s, 1)

NoAdjacentSpaces(s) == \A k \in 1..(Len(s) - 1) : ~(s[k] = " " /\ s[k + 1] = " ")

(***************************************************************************)
(* C1 (as amended): for every string s of alphabet characters,             *)
(* decode(encode(s)) is s uppercased, every space kept: a run of k spaces  *)
(* comes back as k spaces.                                                 *)
(***************************************************************************)
C1_RoundTripUppercase ==
    pc = "decoded" => decoded = Uppercase(text)

\* C1 as stated: the round trip collapses every internal run of spaces
C1_RoundTripCollapsed ==
    pc = "decoded" => decoded = Uppercase(CollapseInternal(text))

C1_Witness ==
    /\ pc = "decoded"
    /\ text = <<"t", " ", " ", "E">>
    /\ decoded = <<"T", " ", " ", "E">>

(***************************************************************************)
(* C4: encode throws exactly when some character of the input is, after    *)
(* uppercasing, outside the alphabet; the exception names the first such   *)
(* character and the caller gets no Morse string, not even the prefix      *)
(* encoded before it.                                                      *)
(***************************************************************************)
FirstBad(s) ==
    LET k == CHOOSE k \in 1..Len(s) :
                /\ Uppercase(s)[k] \notin Alphabet
                /\ \A j \in 1..(k - 1) : Uppercase(s)[j] \in Alphabet
    IN Uppercase(s)[k]

C4_AtomicEncodeFailure ==
    pc # "start" =>
        /\ (pc = "failed") <=> ~InAlphabet(text)
        /\ pc = "failed" => (morse = unset /\ error = <<FirstBad(text)>>)
        /\ pc # "failed" => (morse # unset /\ error = unset)

C4_Witness ==
    /\ pc = "failed"
    /\ text = <<"E", "t", "!">>
    /\ morse = unset

(***************************************************************************)
(* C6 (as amended): in the Morse string encode returns, every maximal run  *)
(* of spaces has length 1 (between two letters of a word) or 3k, k the     *)
(* number of adjacent spaces of the text at that place; the runs are       *)
(* exactly 1 or 3 long when the text has no two adjacent spaces, and a run *)
(* of 2 never occurs.                                                      *)
(***************************************************************************)
C6_GapCounts ==
    pc = "encoded" =>
        /\ DropOnes(RunLengthSeq(morse, 1))
              = [k \in DOMAIN RunLengthSeq(text, 1) |-> 3 * RunLengthSeq(text, 1)[k]]
        /\ 2 \notin RunLengths(morse)
        /\ NoAdjacentSpaces(text) => RunLengths(morse) \subseteq {1, 3}

\* C6 as stated: every maximal run of spaces is exactly 1 or 3 long
C6_GapCountsExact ==
    pc = "encoded" => RunLengths(morse) \subseteq {1, 3}

C6_Witness ==
    /\ pc = "encoded"
    /\ text = <<"E", " ", " ", "t">>
    /\ RunLengths(morse) = {6}

(***************************************************************************)
(* C5: decode returns a text for every string and never throws; the text   *)
(* is the characters of the recognised whitespace-delimited tokens, in     *)
(* order, with one space for every inter-word marker (three spaces, found  *)
(* left to right without overlap); unrecognised tokens leave no trace.     *)
(***************************************************************************)
Whitespace == {" ", "\t", "\n", "\r", "\f"}

IsPattern(tok) == \E c \in Alphabet \ {" "} : charToMorse[c] = tok

CharOf(tok) == CHOOSE c \in Alphabet \ {" "} : charToMorse[c] = tok

TokenStartsAt(m, p) == m[p] \notin Whitespace /\ (p = 1 \/ m[p - 1] \in Whitespace)

TokenAt(m, p) ==
    LET e == CHOOSE e \in p..Len(m) :
                /\ \A k \in p..e : m[k] \notin Whitespace
                /\ (e = Len(m) \/ m[e + 1] \in Whitespace)
    IN SubSeq(m, p, e)

MarkerAt(m, p) ==
    /\ p + 2 <= Len(m)
    /\ \A k \in p..(p + 2) : m[k] = " "
    /\ \E r \in SpaceRuns(m) : r[1] <= p /\ p <= r[2] /\ (p - r[1]) % 3 = 0

RECURSIVE Recognised(_, _)
Recognised(m, p) ==
    IF p > Len(m) THEN <<>>
    ELSE (IF MarkerAt(m, p) THEN <<" ">>
          ELSE IF TokenStartsAt(m, p) /\ IsPattern(TokenAt(m, p))
          THEN <<CharOf(TokenAt(m, p))>>
          ELSE <<>>)
         \o Recognised(m, p + 1)

C5_LossySafeDecode ==
    pc = "decoded" => (error = unset /\ decoded = Recognised(morse, 1))

C5_Witness ==
    /\ pc = "decoded"
    /\ morse = <<".", "-", " ", "x", "y", "z", " ", "-", ".", ".", ".">>
    /\ decoded = <<"A", "B">>

(***************************************************************************)
(* C2 (as amended): for every Morse string m over '.', '-' and space whose *)
(* maximal space runs are each exactly 1 or 3 long,                        *)
(* decodeSamples(generateSamples(m), 44100) is m without its leading and   *)
(* trailing spaces; it is exactly m when m neither begins nor ends with a  *)
(* space.                                                                  *)
(***************************************************************************)
RECURSIVE StripLeft(_)
StripLeft(m) == IF m # <<>> /\ Head(m) = " " THEN StripLeft(Tail(m)) ELSE m

RECURSIVE StripRight(_)
StripRight(m) ==
    IF m # <<>> /\ m[Len(m)] = " " THEN StripRight(SubSeq(m, 1, Len(m) - 1)) ELSE m

Strip(m) == StripRight(StripLeft(m))

C2_WaveRoundTrip ==
    (pc = "detected" /\ RunLengths(morse) \subseteq {1, 3}) =>
        detected = Strip(morse)

\* C2 as stated: the round trip returns exactly m
C2_WaveRoundTripExact ==
    (pc = "detected" /\ RunLengths(morse) \subseteq {1, 3}) =>
        detected = morse

C2_Witness ==
    /\ pc = "detected"
    /\ morse = <<"-", " ", " ", " ", ".", " ", "-">>
    /\ detected = morse

(***************************************************************************)
(* C3: for every text of alphabet characters with no leading space, no     *)
(* trailing space and no two adjacent spaces, encode, generateSamples,     *)
(* saveWav, loadWav (with decodeSamples) and decode return the text        *)
(* uppercased; the self-test on "I HAVE 2 CUPS OF WATER." prints SUCCESS.  *)
(***************************************************************************)
PlainSpacing(s) ==
    /\ NoAdjacentSpaces(s)
    /\ s # <<>> => (s[1] # " " /\ s[Len(s)] # " ")

C3_EndToEnd ==
    pc = "done" =>
        /\ (InAlphabet(text) /\ PlainSpacing(text)) =>
              /\ decoded = Uppercase(text)
              /\ (verdict = "SUCCESS") <=> (text = Uppercase(text))
        /\ text = test_message => verdict = "SUCCESS"

C3_Witness ==
    /\ pc = "done"
    /\ text = test_message
    /\ decoded = test_message
    /\ verdict = "SUCCESS"

(***************************************************************************)
(* C7: a maximal run of samples classified against the committed state     *)
(* (active while InSilence, quiet while InTone) that is shorter than the   *)
(* debounce minimum commits no transition and appends nothing, and once    *)
(* the classification has reverted the debounce counter is 0.              *)
(***************************************************************************)
Against(class, in_tone) == (class = "active") # in_tone

C7_DebounceRejectsBlips ==
    /\ (/\ feed.class # "none"
        /\ Against(feed.class, hist.runInTone)
        /\ hist.runLen < debounce_threshold(sr))
       => (det.in_tone = hist.runInTone /\ det.morse = hist.runMorse)
    /\ (/\ hist.prevClass # "none"
        /\ Against(hist.prevClass, hist.prevInTone)
        /\ hist.prevLen < debounce_threshold(sr)
        /\ hist.runLen >= 1)
       => /\ det.debounce_counter = 0
          /\ det.in_tone = hist.prevInTone
          /\ det.morse = hist.prevMorse

C7_Witness ==
    /\ hist.prevClass = "active"
    /\ ~hist.prevInTone
    /\ hist.prevLen >= 1
    /\ hist.prevLen < debounce_threshold(sr)
    /\ hist.runLen >= 1
    /\ det.morse = <<>>
    /\ ~det.in_tone

(***************************************************************************)
(* C8: a symbol is appended exactly at a confirmed transition into         *)
(* InSilence, and exactly one: '.' when the measured tone is under 0.2 s,  *)
(* '-' when it is 0.2 s or more.  The tone of an uninterrupted active run  *)
(* of n samples is measured as exactly n samples.                          *)
(***************************************************************************)
SymbolCount(m) == Cardinality({k \in 1..Len(m) : m[k] # " "})

C8_Step ==
    LET intoSilence == det.in_tone /\ ~det'.in_tone
        measured == i - det.tone_start
    IN /\ intoSilence =>
            det'.morse = Append(det.morse, IF 5 * measured < sr THEN "." ELSE "-")
       /\ ~intoSilence => SymbolCount(det'.morse) = SymbolCount(det.morse)
       /\ (intoSilence /\ hist.prevClass = "active" /\ ~hist.prevInTone)
             => measured = hist.prevLen

C8_ToneClassification == [][C8_Step]_vars

C8_Witness ==
    /\ ~det.in_tone
    /\ det.morse = <<"-", ".">>
    /\ hist.tonesEnded = 2

(***************************************************************************)
(* C9: the stream may end while InTone or in the middle of a debounce; no  *)
(* symbol is emitted for the unfinished tone and decodeSamples returns     *)
(* what had been accumulated at the last confirmed transition.             *)
(***************************************************************************)
C9_EndOfStream ==
    /\ det.morse = hist.committed
    /\ pc = "detected" =>
          /\ detected = hist.committed
          /\ SymbolCount(detected) = hist.tonesEnded

C9_Witness ==
    /\ pc = "detected"
    /\ det.in_tone
    /\ hist.tonesStarted = 2
    /\ hist.tonesEnded = 1
    /\ SymbolCount(detected) = 1

(***************************************************************************)
(* C10: after any prefix of any sample sequence the accumulated Morse      *)
(* string does not begin with a space, its maximal space runs are exactly  *)
(* 1 or 3 long and each follows a symbol; a gap marker is appended only at *)
(* a confirmed transition into InTone that follows a confirmed tone.       *)
(***************************************************************************)
SpaceCount(m) == Cardinality({k \in 1..Len(m) : m[k] = " "})

C10_Shape ==
    /\ det.morse # <<>> => det.morse[1] # " "
    /\ RunLengths(det.morse) \subseteq {1, 3}
    /\ \A r \in SpaceRuns(det.morse) : r[1] > 1 /\ det.morse[r[1] - 1] \in {".", "-"}

C10_Step ==
    SpaceCount(det'.morse) # SpaceCount(det.morse) =>
        /\ ~det.in_tone /\ det'.in_tone
        /\ hist.tonesEnded >= 1
        /\ det.morse # <<>> /\ det.morse[Len(det.morse)] \in {".", "-"}
        /\ \E gap \in {<<" ">>, <<" ", " ", " ">>} : det'.morse = det.morse \o gap

C10_ShapeInvariant == []C10_Shape /\ [][C10_Step]_vars

C10_Witness ==
    /\ det.morse = <<".", " ", " ", " ">>
    /\ det.in_tone
    /\ hist.tonesStarted = 2

====
